---- MODULE Spec2Model ----
(***************************************************************************)
(* Model of the n8n Schema Validator node: SchemaValidator.execute and its *)
(* two strategies executeSingleSchemaMode / executeMultipleSchemaMode,     *)
(* with the helpers they call (schemaParser, validator, dataExtractor).    *)
(*                                                                         *)
(* JSON values are tagged records: [k |-> kind, v |-> payload].            *)
(* Strings that the code only passes around are TLA+ strings; a data path, *)
(* which the code splits and matches character by character, is a sequence *)
(* of one-character strings.                                               *)
(***************************************************************************)
EXTENDS Integers, Sequences, FiniteSets, TLC

VARIABLES
    cfg,           \* the node parameters of the run (getNodeParameter)
    input,         \* the input records: each an item and its 'customJson' parameter
    pc,            \* "start" | "loop" | "done" | "failed"
    ajv,           \* the Ajv instance built by execute, or NoAjv before
    compiled,      \* single mode: <<validator>>; multiple mode: compiledSchemas
    itemIndex,     \* loop counter of the strategy, 0-based
    validItems,    \* output 1
    invalidItems,  \* output 2
    raised,        \* message of the NodeOperationError that ended the run, or ""
    calls,         \* history: every validator invocation on a record's data
    results,       \* history: multiple mode, schemaResults of each processed record
    trace,         \* history: the parseSchema, ajv.compile and validator calls, in order
    probe          \* a direct call of one library function: its arguments and result

vars == <<cfg, input, pc, ajv, compiled, itemIndex, validItems, invalidItems,
          raised, calls, results, trace, probe>>

(***************************************************************************)
(* Bound of the model.                                                     *)
(***************************************************************************)
MaxItems == 2
\* The longest error list handed to formatValidationErrorMessage directly.
MaxErrors == 2

(***************************************************************************)
(* JSON values                                                             *)
(***************************************************************************)
Undefined == [k |-> "undefined"]
Null == [k |-> "null"]
Num(n) == [k |-> "num", v |-> n]
Str(s) == [k |-> "str", v |-> s]
Arr(s) == [k |-> "arr", v |-> s]
Obj(f) == [k |-> "obj", v |-> f]
EmptyObj == Obj(<<>>)

IsStr(x) == x.k = "str"
IsArr(x) == x.k = "arr"
IsObj(x) == x.k = "obj"

\* JavaScript truthiness of a value (used by `!customJsonParam`, `item.binary`).
Truthy(x) ==
    CASE x.k = "undefined" -> FALSE
      [] x.k = "null" -> FALSE
      [] x.k = "str" -> x.v # ""
      [] x.k = "num" -> x.v # 0
      [] OTHER -> TRUE

\* Object spread / literal: the keys of g override those of f.
Merge(f, g) ==
    [key \in (DOMAIN f) \cup (DOMAIN g) |-> IF key \in DOMAIN g THEN g[key] ELSE f[key]]

\* A result of a call that may throw.
Return(x) == [threw |-> FALSE, value |-> x, message |-> ""]
Throw(msg) == [threw |-> TRUE, value |-> Undefined, message |-> msg]

RECURSIVE JoinWith(_, _)
\* Array.prototype.join on a sequence of strings.
JoinWith(strs, sep) ==
    IF Len(strs) = 0 THEN ""
    ELSE IF Len(strs) = 1 THEN strs[1]
    ELSE strs[1] \o sep \o JoinWith(Tail(strs), sep)

\* The string spelled by a sequence of characters.
Text(chars) == JoinWith(chars, "")

(***************************************************************************)
(* JSON.parse, on the texts the runs use.                                  *)
(***************************************************************************)
TxtReqA == "{\"type\":\"object\",\"required\":[\"a\"],\"properties\":{\"a\":{\"type\":\"string\"}}}"
TxtString == "{\"type\":\"string\"}"
TxtObject == "{\"type\":\"object\"}"
TxtRecursive == "{\"$ref\":\"#\"}"
TxtBadType == "{\"type\":\"objekt\"}"
TxtTruncated == "{\"type\":\"object\""
TxtDataAx == "{\"a\":\"x\"}"
TxtDataA1 == "{\"a\":1}"
TxtDataCut == "{\"a\":"

SchReqA ==
    Obj([type |-> Str("object"),
         required |-> Arr(<<Str("a")>>),
         properties |-> Obj([a |-> Obj([type |-> Str("string")])])])
SchString == Obj([type |-> Str("string")])
SchObject == Obj([type |-> Str("object")])
SchRecursive == Obj([key \in {"$ref"} |-> Str("#")])
SchBadType == Obj([type |-> Str("objekt")])

JSONParse(text) ==
    CASE text = TxtReqA -> Return(SchReqA)
      [] text = TxtString -> Return(SchString)
      [] text = TxtObject -> Return(SchObject)
      [] text = TxtRecursive -> Return(SchRecursive)
      [] text = TxtBadType -> Return(SchBadType)
      [] text = TxtDataAx -> Return(Obj([a |-> Str("x")]))
      [] text = TxtDataA1 -> Return(Obj([a |-> Num(1)]))
      [] OTHER -> Throw("Unexpected end of JSON input")

(***************************************************************************)
(* schemaParser                                                            *)
(***************************************************************************)
\* Variant of parseSchema: a decode failure is swallowed and yields the empty schema.
parseSchemaLenient(schemaJson) ==
    IF IsStr(schemaJson)
    THEN LET r == JSONParse(schemaJson.v)
         IN  IF r.threw THEN Return(EmptyObj) ELSE r
    ELSE Return(schemaJson)

parseSchema(schemaJson) ==
    IF IsStr(schemaJson)
    THEN LET r == JSONParse(schemaJson.v)
         IN  IF r.threw THEN Throw("Invalid JSON schema format: " \o r.message) ELSE r
    ELSE Return(schemaJson)

(***************************************************************************)
(* validator: the Ajv boundary.  The compiler itself is external; it is    *)
(* modelled for the keywords the schemas above use: type, required,        *)
(* properties and a self-reference.                                        *)
(***************************************************************************)
NoAjv == [opts |-> <<>>, formats |-> FALSE, customErrors |-> FALSE]

\* createAjvInstance: only allErrors, strict and verbose are handed to Ajv.
createAjvInstance(options) ==
    [opts |-> [allErrors |-> options.allErrors,
               strict |-> options.strict,
               verbose |-> options.verbose],
     formats |-> options.useFormats,
     customErrors |-> options.useCustomErrors]

\* An Ajv option that is not handed over keeps Ajv's default, false.
AjvOption(instance, name) ==
    IF name \in DOMAIN instance.opts THEN instance.opts[name] ELSE FALSE

TypeNames == {"object", "array", "string", "number", "null", "boolean", "integer"}

\* ajv.compile(schema): throws on a schema that is not well formed.
AjvCompile(instance, schema) ==
    IF ~IsObj(schema) THEN Throw("schema must be object or boolean")
    ELSE IF "type" \in DOMAIN schema.v /\ ~(IsStr(schema.v["type"]) /\ schema.v["type"].v \in TypeNames)
    THEN Throw("schema is invalid: data/type must be equal to one of the allowed values")
    ELSE Return([schema |-> schema, instance |-> instance])

isValidJsonSchema(schema, ajvInstance) ==
    LET r == AjvCompile(ajvInstance, schema)
    IN  IF r.threw THEN [isValid |-> FALSE, error |-> r.message]
        ELSE [isValid |-> TRUE, error |-> ""]

createValidator(schema, ajvInstance) == AjvCompile(ajvInstance, schema)

TypeOf(data) ==
    CASE data.k = "obj" -> "object"
      [] data.k = "arr" -> "array"
      [] data.k = "str" -> "string"
      [] data.k = "num" -> "number"
      [] OTHER -> "null"

\* Does data have the type, possibly after Ajv's coercion of a number to a string.
TypeMatches(type, data, coerce) ==
    \/ TypeOf(data) = type
    \/ type = "integer" /\ TypeOf(data) = "number"
    \/ coerce /\ type = "string" /\ TypeOf(data) = "number"

RawError(ptr, msg, kw, params) ==
    [instancePath |-> ptr, message |-> msg, keyword |-> kw, params |-> params]

RECURSIVE RequiredErrors(_, _, _)
RequiredErrors(names, data, ptr) ==
    IF Len(names) = 0 THEN <<>>
    ELSE (IF names[1].v \in DOMAIN data.v THEN <<>>
          ELSE <<RawError(ptr, "must have required property '" \o names[1].v \o "'",
                          "required", [missingProperty |-> names[1].v])>>)
         \o RequiredErrors(Tail(names), data, ptr)

RECURSIVE Evaluate(_, _, _, _, _)
RECURSIVE PropertyErrors(_, _, _, _, _, _)
\* The diagnostics of one generated validation function on one value.
Evaluate(schema, data, ptr, allErrors, coerce) ==
    LET kw == DOMAIN schema.v
        typeErrs ==
            IF "type" \in kw /\ ~TypeMatches(schema.v["type"].v, data, coerce)
            THEN <<RawError(ptr, "must be " \o schema.v["type"].v, "type",
                            [type |-> schema.v["type"].v])>>
            ELSE <<>>
        reqErrs ==
            IF "required" \in kw /\ IsObj(data)
            THEN RequiredErrors(schema.v["required"].v, data, ptr)
            ELSE <<>>
        propErrs ==
            IF "properties" \in kw /\ IsObj(data)
            THEN PropertyErrors(schema.v["properties"].v,
                                (DOMAIN schema.v["properties"].v) \cap (DOMAIN data.v),
                                data, ptr, allErrors, coerce)
            ELSE <<>>
        all == IF Len(typeErrs) > 0 THEN typeErrs ELSE reqErrs \o propErrs
    IN  IF allErrors \/ Len(all) = 0 THEN all ELSE <<all[1]>>

PropertyErrors(props, keys, data, ptr, allErrors, coerce) ==
    IF keys = {} THEN <<>>
    ELSE LET key == CHOOSE x \in keys : TRUE
         IN  Evaluate(props[key], data.v[key], ptr \o "/" \o key, allErrors, coerce)
             \o PropertyErrors(props, keys \ {key}, data, ptr, allErrors, coerce)

\* validator(data): the verdict and validator.errors after the call.  A schema
\* that refers to itself recurses without end and the call raises.
Invoke(validator, data) ==
    IF "$ref" \in DOMAIN validator.schema.v
    THEN [threw |-> TRUE, message |-> "Maximum call stack size exceeded",
          valid |-> FALSE, errors |-> <<>>]
    ELSE LET errs == Evaluate(validator.schema, data, "",
                              AjvOption(validator.instance, "allErrors"),
                              AjvOption(validator.instance, "coerceTypes"))
         IN  [threw |-> FALSE, message |-> "", valid |-> Len(errs) = 0, errors |-> errs]

ValidationError(field, message, keyword, params) ==
    [field |-> field, message |-> message, keyword |-> keyword, params |-> params]

\* x || fallback on a string property of an error object: the fallback is
\* taken when the property is missing and when it is the empty string.
StringOr(err, name, fallback) ==
    IF name \in DOMAIN err /\ err[name] # "" THEN err[name] ELSE fallback

\* Variant of transformValidationErrors: the root pointer is not normalised.
transformValidationErrorsRawPointer(rawErrors) ==
    IF rawErrors = Null THEN <<>>
    ELSE [i \in 1..Len(rawErrors.v) |->
            ValidationError(
                StringOr(rawErrors.v[i], "instancePath", ""),
                StringOr(rawErrors.v[i], "message", "Validation failed"),
                rawErrors.v[i].keyword,
                IF "params" \in DOMAIN rawErrors.v[i] /\ rawErrors.v[i].params # Undefined
                THEN rawErrors.v[i].params ELSE <<>>)]

\* transformValidationErrors, on validator.errors: null, or an array of error
\* objects in which instancePath, message and params may be missing.
transformValidationErrors(rawErrors) ==
    IF rawErrors = Null THEN <<>>
    ELSE [i \in 1..Len(rawErrors.v) |->
            ValidationError(
                StringOr(rawErrors.v[i], "instancePath", "/"),
                StringOr(rawErrors.v[i], "message", "Validation failed"),
                rawErrors.v[i].keyword,
                IF "params" \in DOMAIN rawErrors.v[i] /\ rawErrors.v[i].params # Undefined
                THEN rawErrors.v[i].params ELSE <<>>)]

\* Variant of validateData: the diagnostics are not collected.
validateDataDroppingErrors(validator, data) ==
    LET r == Invoke(validator, data)
    IN  IF r.threw THEN Throw(r.message)
        ELSE Return([isValid |-> r.valid, errors |-> <<>>])

\* validateData: may throw what the validator throws.
validateData(validator, data) ==
    LET r == Invoke(validator, data)
    IN  IF r.threw THEN Throw(r.message)
        ELSE Return([isValid |-> r.valid,
                     errors |-> IF r.valid THEN <<>> ELSE transformValidationErrors(Arr(r.errors))])

\* Variant of formatValidationErrorMessage: the renderings are joined by "; ".
formatValidationErrorMessageSemicolon(errors) ==
    JoinWith([i \in 1..Len(errors) |-> errors[i].field \o ": " \o errors[i].message], "; ")

formatValidationErrorMessage(errors) ==
    JoinWith([i \in 1..Len(errors) |-> errors[i].field \o ": " \o errors[i].message], ", ")

(***************************************************************************)
(* dataExtractor                                                           *)
(***************************************************************************)
\* Variant of extractCustomJsonData: a decode failure yields null instead of throwing.
extractCustomJsonDataLenient(customJsonParam) ==
    IF IsStr(customJsonParam)
    THEN LET r == JSONParse(customJsonParam.v)
         IN  IF r.threw THEN Return(Null) ELSE r
    ELSE Return(customJsonParam)

extractCustomJsonData(customJsonParam) ==
    IF IsStr(customJsonParam)
    THEN LET r == JSONParse(customJsonParam.v)
         IN  IF r.threw THEN Throw("Invalid custom JSON: " \o r.message) ELSE r
    ELSE Return(customJsonParam)

extractDataToValidate(item, dataSource, customJsonParam) ==
    IF dataSource = "customJson"
    THEN IF ~Truthy(customJsonParam)
         THEN Throw("Custom JSON is required when Data Source is \"Custom JSON\"")
         ELSE extractCustomJsonData(customJsonParam)
    ELSE Return(item.json)

Letters == {"a", "b", "c", "l", "e", "n", "g", "t", "h"}
Digits == {"0", "1", "2", "3", "4", "5", "6", "7", "8", "9"}
\* The class \w of the regular expression.
WordChars == Letters \cup Digits \cup {"_"}

DigitValue(c) ==
    CASE c = "0" -> 0 [] c = "1" -> 1 [] c = "2" -> 2 [] c = "3" -> 3 [] c = "4" -> 4
      [] c = "5" -> 5 [] c = "6" -> 6 [] c = "7" -> 7 [] c = "8" -> 8 [] OTHER -> 9

RECURSIVE parseInt(_)
\* parseInt(digits, 10) on a non-empty run of digits.
parseInt(digits) ==
    IF Len(digits) = 0 THEN 0
    ELSE 10 * parseInt(SubSeq(digits, 1, Len(digits) - 1)) + DigitValue(digits[Len(digits)])

RECURSIVE Split(_, _)
\* String.prototype.split(sep) on a sequence of characters.
Split(chars, sep) ==
    IF \E i \in 1..Len(chars) : chars[i] = sep
    THEN LET i == CHOOSE j \in 1..Len(chars) :
                      chars[j] = sep /\ \A h \in 1..(j - 1) : chars[h] # sep
         IN  <<SubSeq(chars, 1, i - 1)>> \o Split(SubSeq(chars, i + 1, Len(chars)), sep)
    ELSE <<chars>>

AllIn(chars, set) == \A i \in 1..Len(chars) : chars[i] \in set

\* part.match(/^(\w+)\[(\d+)\]$/): the position of the bracket, or 0 for no match.
arrayMatch(part) ==
    LET n == Len(part)
        open == {i \in 2..(n - 2) :
                    /\ part[i] = "["
                    /\ part[n] = "]"
                    /\ AllIn(SubSeq(part, 1, i - 1), WordChars)
                    /\ AllIn(SubSeq(part, i + 1, n - 1), Digits)}
    IN  IF open = {} THEN 0 ELSE CHOOSE i \in open : TRUE

KeyPart(chars) == [num |-> FALSE, key |-> chars, n |-> 0]
NumPart(n) == [num |-> TRUE, key |-> <<>>, n |-> n]

RECURSIVE PathParts(_)
\* The flatMap over the segments of the path.
PathParts(segments) ==
    IF Len(segments) = 0 THEN <<>>
    ELSE LET part == segments[1]
             m == arrayMatch(part)
         IN  (IF m > 0
              THEN <<KeyPart(SubSeq(part, 1, m - 1)),
                     NumPart(parseInt(SubSeq(part, m + 1, Len(part) - 1)))>>
              ELSE <<KeyPart(part)>>)
             \o PathParts(Tail(segments))

\* A canonical array index written as a property name: digits, no leading zero.
IsIndexName(chars) ==
    /\ Len(chars) > 0
    /\ AllIn(chars, Digits)
    /\ (Len(chars) > 1 => chars[1] # "0")

\* current[part] for a string part: a property of an object, or of an array
\* (typeof [] is 'object'), where names that are indices and "length" exist.
Property(current, key) ==
    IF IsObj(current)
    THEN IF Text(key) \in DOMAIN current.v THEN current.v[Text(key)] ELSE Undefined
    ELSE IF IsIndexName(key)
         THEN IF parseInt(key) < Len(current.v) THEN current.v[parseInt(key) + 1] ELSE Undefined
         ELSE IF Text(key) = "length" THEN Num(Len(current.v)) ELSE Undefined

\* Variant of Element: the index is taken as 1-based.
ElementOneBased(current, n) ==
    IF n >= 1 /\ n <= Len(current.v) THEN current.v[n] ELSE Undefined

\* current[part] for a number part on an array.
Element(current, n) ==
    IF n < Len(current.v) THEN current.v[n + 1] ELSE Undefined

RECURSIVE Walk(_, _)
Walk(current, parts) ==
    IF Len(parts) = 0 THEN current
    ELSE IF current = Null \/ current = Undefined THEN Undefined
    ELSE IF parts[1].num
         THEN IF ~IsArr(current) THEN Undefined
              ELSE Walk(Element(current, parts[1].n), Tail(parts))
         ELSE IF ~(IsObj(current) \/ IsArr(current)) THEN Undefined
              ELSE Walk(Property(current, parts[1].key), Tail(parts))

extractDataFromPath(item, path) == Walk(item.json, PathParts(Split(path, ".")))

(***************************************************************************)
(* The runs: configurations and input records.                             *)
(***************************************************************************)
\* A boolean option of the 'options' collection is absent, true or false.
OptionValues == {"absent", "true", "false"}
\* options.x !== false
NotFalse(o) == o # "false"
\* options.x as a condition
IsSet(o) == o = "true"

DefaultOptions ==
    [enableFormats |-> "absent", enableCustomErrors |-> "absent", strictMode |-> "absent",
     allErrors |-> "absent", coerceTypes |-> "absent", allowUnionTypes |-> "absent",
     includeErrorDetails |-> "absent", includeOriginalData |-> "absent"]

OptionProfiles ==
    {[DefaultOptions EXCEPT !.includeErrorDetails = d, !.includeOriginalData = o] :
        d \in OptionValues, o \in OptionValues}
    \cup {[DefaultOptions EXCEPT !.allErrors = "false"],
          [DefaultOptions EXCEPT !.coerceTypes = "true", !.allowUnionTypes = "false"],
          [DefaultOptions EXCEPT !.strictMode = "false", !.enableFormats = "false",
                                 !.enableCustomErrors = "false", !.allErrors = "true"]}

Blob == Obj([data |-> Str("AAAA")])

Item(json, binary) == [json |-> json, binary |-> binary]
InputRecord(item, customJson) == [item |-> item, customJson |-> customJson]

RecGood == InputRecord(Item(Obj([a |-> Str("x")]), Blob), Str(TxtDataAx))
RecEmpty == InputRecord(Item(EmptyObj, Undefined), Str(""))
RecWrong == InputRecord(Item(Obj([a |-> Num(1)]), Blob), Str(TxtDataCut))
RecNested ==
    InputRecord(Item(Obj([a |-> Str("x"), b |-> Arr(<<Obj([a |-> Str("y")])>>)]), Undefined),
                Obj([a |-> Num(1)]))
InputRecords == {RecGood, RecEmpty, RecWrong, RecNested}

SchemaItem(name, schema, path) == [schemaName |-> name, schema |-> schema, dataPath |-> path]

ItemA == SchemaItem("A", Str(TxtReqA), <<>>)
ItemO == SchemaItem("O", Str(TxtObject), <<>>)
ItemP == SchemaItem("", Str(TxtString), <<"a">>)
ItemQ == SchemaItem("Q", Str(TxtReqA), <<"b", "[", "0", "]">>)
ItemR == SchemaItem("R", Str(TxtRecursive), <<>>)
ItemCut == SchemaItem("", Str(TxtTruncated), <<>>)
ItemBad == SchemaItem("I", Str(TxtBadType), <<>>)

SchemaLists ==
    {<<>>, <<ItemA>>, <<ItemO, ItemA>>, <<ItemA, ItemP>>, <<ItemP, ItemQ>>, <<ItemO, ItemR>>,
     <<ItemP, ItemO, ItemQ>>, <<ItemCut>>, <<ItemA, ItemBad>>, <<ItemBad, ItemCut>>,
     <<ItemO, ItemCut, ItemBad>>, <<ItemR, ItemA>>}

SingleSchemas == {Str(TxtReqA), SchReqA, Str(TxtRecursive), Str(TxtTruncated), Str(TxtBadType)}

SingleConfigs ==
    [validationMode : {"single"}, jsonSchema : SingleSchemas,
     dataSource : {"entireItem", "customJson"},
     schemas : {<<>>}, matchMode : {"all"}, options : OptionProfiles]

MultipleConfigs ==
    [validationMode : {"multiple"}, jsonSchema : {Str(TxtObject)},
     dataSource : {"entireItem"},
     schemas : SchemaLists, matchMode : {"all", "any"}, options : OptionProfiles]

Inputs == UNION {[1..n -> InputRecords] : n \in 0..MaxItems}

\* this.getInputData()
items == [i \in 1..Len(input) |-> input[i].item]

(***************************************************************************)
(* SchemaValidator.execute                                                 *)
(***************************************************************************)
validatorOptions(options) ==
    [allErrors |-> NotFalse(options.allErrors),
     strict |-> NotFalse(options.strictMode),
     verbose |-> TRUE,
     useFormats |-> NotFalse(options.enableFormats),
     useCustomErrors |-> NotFalse(options.enableCustomErrors),
     allowUnionTypes |-> NotFalse(options.allowUnionTypes),
     coerceTypes |-> NotFalse(options.coerceTypes)]

\* Variant of Push: the array is assigned instead of appended to.
PushOverwrite(array, elements) == IF Len(elements) = 0 THEN array ELSE elements

\* Variant of Push: unshift instead of push.
PushFront(array, elements) == elements \o array

\* array.push(elements)
Push(array, elements) == array \o elements

\* Variant of ValidOutput: only the json is copied, the binary is lost.
ValidOutputJsonOnly(item, index) ==
    [json |-> item.json, binary |-> Undefined, pairedItem |-> index]

\* { ...item, pairedItem: itemIndex }
ValidOutput(item, index) ==
    [json |-> item.json, binary |-> item.binary, pairedItem |-> index]

\* The json of a diagnostic record: the original fields when asked for, then
\* the two diagnostic fields.
DiagnosticJson(item, options, detailsKey, details, message) ==
    Obj(Merge(IF IsSet(options.includeOriginalData) THEN item.json.v ELSE <<>>,
              [key \in {detailsKey, "validationMessage"} |->
                  IF key = detailsKey THEN details ELSE Str(message)]))

\* The binary of a diagnostic record of the validation branch.
DiagnosticBinary(item, options) ==
    IF IsSet(options.includeOriginalData) /\ Truthy(item.binary) THEN item.binary
    ELSE Undefined

\* Single mode, the branch of a failed validation.
SingleInvalidOutput(item, index, errors, options) ==
    [json |-> DiagnosticJson(item, options, "validationErrors",
                             IF NotFalse(options.includeErrorDetails) THEN Arr(errors)
                             ELSE Undefined,
                             formatValidationErrorMessage(errors)),
     binary |-> DiagnosticBinary(item, options),
     pairedItem |-> index]

\* Single mode, the catch branch.
SingleErrorOutput(item, index, errorMessage, options) ==
    [json |-> DiagnosticJson(item, options, "validationErrors",
                             Arr(<<ValidationError("/", errorMessage, "parse", <<>>)>>),
                             errorMessage),
     binary |-> Undefined,
     pairedItem |-> index]

Call(index, schemaPos, data) == [item |-> index, schema |-> schemaPos, data |-> data]

\* One iteration of the loop of executeSingleSchemaMode: what it appends to
\* the two outputs and which validator invocations it makes.
SingleStep(validator, record, index, dataSource, options) ==
    LET item == record.item
        customJsonParam == IF dataSource = "customJson" THEN record.customJson ELSE Undefined
        data == extractDataToValidate(item, dataSource, customJsonParam)
        result == IF data.threw THEN data ELSE validateData(validator, data.value)
        invoked == IF data.threw THEN <<>> ELSE <<Call(index, 1, data.value)>>
    IN  IF result.threw
        THEN [valid |-> <<>>,
              invalid |-> <<SingleErrorOutput(item, index, result.message, options)>>,
              calls |-> invoked]
        ELSE IF result.value.isValid
        THEN [valid |-> <<ValidOutput(item, index)>>, invalid |-> <<>>, calls |-> invoked]
        ELSE [valid |-> <<>>,
              invalid |-> <<SingleInvalidOutput(item, index, result.value.errors, options)>>,
              calls |-> invoked]

(***************************************************************************)
(* executeMultipleSchemaMode                                               *)
(***************************************************************************)
\* Variant of SchemaLabel: the fallback shows the 0-based index.
SchemaLabelZeroBased(schemaItem, index) ==
    IF schemaItem.schemaName # "" THEN schemaItem.schemaName
    ELSE "Schema " \o ToString(index)

\* schemaItem.schemaName || `Schema ${index + 1}`, index 0-based
SchemaLabel(schemaItem, index) ==
    IF schemaItem.schemaName # "" THEN schemaItem.schemaName
    ELSE "Schema " \o ToString(index + 1)

\* The callback of schemas.map: the compiled schema, or the message of the
\* NodeOperationError it throws.
CompileSchemaItem(schemaItem, index, ajvInstance) ==
    LET label == SchemaLabel(schemaItem, index)
        parsed == parseSchema(schemaItem.schema)
        checked == IF parsed.threw THEN [isValid |-> FALSE, error |-> ""]
                   ELSE isValidJsonSchema(parsed.value, ajvInstance)
        inner ==
            IF parsed.threw THEN parsed.message
            ELSE "Invalid JSON Schema \"" \o label \o "\": "
                 \o (IF checked.error # "" THEN checked.error ELSE "Unknown error")
    IN  IF parsed.threw \/ ~checked.isValid
        THEN Throw("Error compiling schema \"" \o label \o "\": " \o inner)
        ELSE Return([name |-> label,
                     validator |-> createValidator(parsed.value, ajvInstance).value,
                     dataPath |-> schemaItem.dataPath])

MultiSchemaValidationResult(name, isValid, errors) ==
    [schemaName |-> name, isValid |-> isValid, errors |-> errors]

\* Variant of SchemaStep: the result of the extraction is not tested, the validator
\* runs on whatever the path gave.
SchemaStepUnchecked(compiledSchema, item) ==
    LET dataToValidate ==
            IF Len(compiledSchema.dataPath) > 0
            THEN extractDataFromPath(item, compiledSchema.dataPath)
            ELSE item.json
        r == validateData(compiledSchema.validator, dataToValidate)
    IN  [result |->
            IF r.threw
            THEN MultiSchemaValidationResult(compiledSchema.name, FALSE,
                     <<ValidationError("/", r.message, "parse", <<>>)>>)
            ELSE MultiSchemaValidationResult(compiledSchema.name, r.value.isValid,
                                             r.value.errors),
         data |-> <<dataToValidate>>]

\* The body of the loop over compiledSchemas for one record: the result it
\* pushes and the validator invocation it makes, if any.
SchemaStep(compiledSchema, item) ==
    IF Len(compiledSchema.dataPath) > 0
       /\ extractDataFromPath(item, compiledSchema.dataPath) = Undefined
    THEN [result |->
            MultiSchemaValidationResult(compiledSchema.name, FALSE,
                <<ValidationError(Text(compiledSchema.dataPath),
                                  "Path \"" \o Text(compiledSchema.dataPath)
                                      \o "\" not found in item",
                                  "path",
                                  [path |-> Text(compiledSchema.dataPath)])>>),
          data |-> <<>>]
    ELSE LET dataToValidate ==
                 IF Len(compiledSchema.dataPath) > 0
                 THEN extractDataFromPath(item, compiledSchema.dataPath)
                 ELSE item.json
             r == validateData(compiledSchema.validator, dataToValidate)
         IN  [result |->
                IF r.threw
                THEN MultiSchemaValidationResult(compiledSchema.name, FALSE,
                         <<ValidationError("/", r.message, "parse", <<>>)>>)
                ELSE MultiSchemaValidationResult(compiledSchema.name, r.value.isValid,
                                                 r.value.errors),
              data |-> <<dataToValidate>>]

\* Variant of isItemValid: the two combinators are swapped.
isItemValidSwapped(matchMode, schemaResults) ==
    IF matchMode = "all"
    THEN \E i \in 1..Len(schemaResults) : schemaResults[i].isValid
    ELSE \A i \in 1..Len(schemaResults) : schemaResults[i].isValid

\* matchMode === 'all' ? every : some
isItemValid(matchMode, schemaResults) ==
    IF matchMode = "all"
    THEN \A i \in 1..Len(schemaResults) : schemaResults[i].isValid
    ELSE \E i \in 1..Len(schemaResults) : schemaResults[i].isValid

RECURSIVE failedSchemas(_)
\* schemaResults.filter(r => !r.isValid)
failedSchemas(schemaResults) ==
    IF Len(schemaResults) = 0 THEN <<>>
    ELSE (IF ~schemaResults[1].isValid THEN <<schemaResults[1]>> ELSE <<>>)
         \o failedSchemas(Tail(schemaResults))

\* Variant of errorMessages: every schema is listed, passing ones included.
errorMessagesAllSchemas(schemaResults) ==
    JoinWith([i \in 1..Len(schemaResults) |->
                "[" \o schemaResults[i].schemaName \o "] "
                    \o formatValidationErrorMessage(schemaResults[i].errors)],
             "; ")

errorMessages(schemaResults) ==
    LET failed == failedSchemas(schemaResults)
    IN  JoinWith([i \in 1..Len(failed) |->
                    "[" \o failed[i].schemaName \o "] "
                        \o formatValidationErrorMessage(failed[i].errors)],
                 "; ")

\* Variant of MultiInvalidOutput: the details list the failed schemas only.
MultiInvalidOutputFailedOnly(item, index, schemaResults, options) ==
    [json |-> DiagnosticJson(item, options, "validationResults",
                             IF NotFalse(options.includeErrorDetails)
                             THEN Arr(failedSchemas(schemaResults))
                             ELSE Undefined,
                             errorMessages(schemaResults)),
     binary |-> DiagnosticBinary(item, options),
     pairedItem |-> index]

\* Multiple mode, the diagnostic record of a record that did not match.
MultiInvalidOutput(item, index, schemaResults, options) ==
    [json |-> DiagnosticJson(item, options, "validationResults",
                             IF NotFalse(options.includeErrorDetails) THEN Arr(schemaResults)
                             ELSE Undefined,
                             errorMessages(schemaResults)),
     binary |-> DiagnosticBinary(item, options),
     pairedItem |-> index]

RECURSIVE InvokedCalls(_, _, _)
\* The validator invocations of the steps from position j on, in order.
InvokedCalls(steps, index, j) ==
    IF j > Len(steps) THEN <<>>
    ELSE (IF Len(steps[j].data) > 0 THEN <<Call(index, j, steps[j].data[1])>> ELSE <<>>)
         \o InvokedCalls(steps, index, j + 1)

\* Variant of MultiStep: one try around the whole loop over the schemas, so the
\* first raised failure ends the evaluation of the record's schemas.
MultiStepOuterCatch(compiledSchemas, record, index, matchMode, options) ==
    LET item == record.item
        each == [j \in 1..Len(compiledSchemas) |-> SchemaStep(compiledSchemas[j], item)]
        thrown == {j \in 1..Len(each) : each[j].result.errors # <<>>
                                         /\ each[j].result.errors[1].keyword = "parse"}
        last == IF thrown = {} THEN Len(each)
                ELSE CHOOSE j \in thrown : \A h \in thrown : j <= h
        steps == SubSeq(each, 1, last)
        schemaResults == [j \in 1..last |-> steps[j].result]
    IN  [valid |-> IF isItemValid(matchMode, schemaResults)
                   THEN <<ValidOutput(item, index)>> ELSE <<>>,
         invalid |-> IF isItemValid(matchMode, schemaResults) THEN <<>>
                     ELSE <<MultiInvalidOutput(item, index, schemaResults, options)>>,
         calls |-> InvokedCalls(steps, index, 1),
         schemaResults |-> schemaResults]

\* One iteration of the loop over the items of executeMultipleSchemaMode.
MultiStep(compiledSchemas, record, index, matchMode, options) ==
    LET item == record.item
        steps == [j \in 1..Len(compiledSchemas) |-> SchemaStep(compiledSchemas[j], item)]
        schemaResults == [j \in 1..Len(compiledSchemas) |-> steps[j].result]
    IN  [valid |-> IF isItemValid(matchMode, schemaResults)
                   THEN <<ValidOutput(item, index)>> ELSE <<>>,
         invalid |-> IF isItemValid(matchMode, schemaResults) THEN <<>>
                     ELSE <<MultiInvalidOutput(item, index, schemaResults, options)>>,
         calls |-> InvokedCalls(steps, index, 1),
         schemaResults |-> schemaResults]

(***************************************************************************)
(* History of the calls that parse a schema, compile it, or run a compiled *)
(* validator.  A validator is identified by the position in the history of *)
(* the ajv.compile call that produced it.                                  *)
(***************************************************************************)
TraceEvent(op, schemaPos, index, by) ==
    [op |-> op, schema |-> schemaPos, item |-> index, by |-> by]

\* The calls one schema costs before the loop: parseSchema, then ajv.compile in
\* isValidJsonSchema when the text parsed, then ajv.compile in createValidator
\* when the schema was accepted.
SetupEvents(schemaJson, schemaPos, ajvInstance) ==
    LET parsed == parseSchema(schemaJson)
    IN  <<TraceEvent("parse", schemaPos, -1, 0)>>
        \o (IF parsed.threw THEN <<>>
            ELSE <<TraceEvent("compile", schemaPos, -1, 0)>>
                 \o (IF isValidJsonSchema(parsed.value, ajvInstance).isValid
                     THEN <<TraceEvent("compile", schemaPos, -1, 0)>>
                     ELSE <<>>))

RECURSIVE MapEvents(_, _, _)
\* The calls of schemas.map from position j on: the map stops at the first
\* callback that throws.
MapEvents(schemas, j, ajvInstance) ==
    IF j > Len(schemas) THEN <<>>
    ELSE SetupEvents(schemas[j].schema, j, ajvInstance)
         \o (IF CompileSchemaItem(schemas[j], j - 1, ajvInstance).threw THEN <<>>
             ELSE MapEvents(schemas, j + 1, ajvInstance))

\* The validator held for a schema: the product of the latest ajv.compile on it.
LastCompile(history, schemaPos) ==
    LET made == {k \in 1..Len(history) :
                    history[k].op = "compile" /\ history[k].schema = schemaPos}
    IN  IF made = {} THEN 0 ELSE CHOOSE k \in made : \A h \in made : h <= k

\* The validator invocations of one iteration, each with the validator it ran.
ValidateEvents(invoked, history) ==
    [k \in 1..Len(invoked) |->
        TraceEvent("validate", invoked[k].schema, invoked[k].item,
                   LastCompile(history, invoked[k].schema))]

\* The read of validator.errors that follows an invocation that returned false.
ReadEvents(invoked, history, validators) ==
    IF ~Invoke(validators[invoked.schema], invoked.data).threw
       /\ ~Invoke(validators[invoked.schema], invoked.data).valid
    THEN <<TraceEvent("read", invoked.schema, invoked.item,
                      LastCompile(history, invoked.schema))>>
    ELSE <<>>

RECURSIVE AllReadEvents(_, _, _)
AllReadEvents(invoked, history, validators) ==
    IF Len(invoked) = 0 THEN <<>>
    ELSE ReadEvents(invoked[1], history, validators)
         \o AllReadEvents(Tail(invoked), history, validators)

\* Variant of DiagnosticEvents: the diagnostics are read once all the
\* invocations of the iteration are made.
DiagnosticEventsDeferred(invoked, history, validators) ==
    ValidateEvents(invoked, history) \o AllReadEvents(invoked, history, validators)

RECURSIVE DiagnosticEvents(_, _, _)
\* validateData on each invocation of one iteration, in order: the validator
\* runs and, when it returned false, transformValidationErrors reads its
\* errors before anything else is called.
DiagnosticEvents(invoked, history, validators) ==
    IF Len(invoked) = 0 THEN <<>>
    ELSE ValidateEvents(<<invoked[1]>>, history)
         \o ReadEvents(invoked[1], history, validators)
         \o DiagnosticEvents(Tail(invoked), history, validators)

(***************************************************************************)
(* The state machine of one run.                                           *)
(***************************************************************************)
\* No library call is being probed.
NoProbe == [fn |-> "none", args |-> <<>>, returned |-> FALSE, out |-> Undefined]

Init ==
    /\ cfg \in SingleConfigs \cup MultipleConfigs
    /\ input \in Inputs
    /\ pc = "start"
    /\ ajv = NoAjv
    /\ compiled = <<>>
    /\ itemIndex = 0
    /\ validItems = <<>>
    /\ invalidItems = <<>>
    /\ raised = ""
    /\ calls = <<>>
    /\ results = <<>>
    /\ trace = <<>>
    /\ probe = NoProbe

\* execute, up to the choice of the strategy.
Execute ==
    /\ pc = "start"
    /\ ajv' = createAjvInstance(validatorOptions(cfg.options))
    /\ pc' = "setup"
    /\ UNCHANGED <<cfg, input, compiled, itemIndex, validItems, invalidItems, raised,
                   calls, results, trace, probe>>

\* executeSingleSchemaMode, before the loop.
SingleSetup ==
    /\ pc = "setup"
    /\ cfg.validationMode = "single"
    /\ LET parsed == parseSchema(cfg.jsonSchema)
           checked == IF parsed.threw THEN [isValid |-> FALSE, error |-> ""]
                      ELSE isValidJsonSchema(parsed.value, ajv)
       IN  IF parsed.threw
           THEN /\ pc' = "failed"
                /\ raised' = parsed.message
                /\ UNCHANGED compiled
           ELSE IF ~checked.isValid
           THEN /\ pc' = "failed"
                /\ raised' = "Invalid JSON Schema: "
                             \o (IF checked.error # "" THEN checked.error ELSE "Unknown error")
                /\ UNCHANGED compiled
           ELSE /\ pc' = "loop"
                /\ compiled' = <<createValidator(parsed.value, ajv).value>>
                /\ UNCHANGED raised
    /\ trace' = trace \o SetupEvents(cfg.jsonSchema, 1, ajv)
    /\ UNCHANGED <<cfg, input, ajv, itemIndex, validItems, invalidItems, calls, results,
                   probe>>

\* Variant of SingleItem: the custom value is read at index 0 for every record.
SingleItemFirstParam ==
    /\ pc = "loop"
    /\ cfg.validationMode = "single"
    /\ itemIndex < Len(input)
    /\ \E step \in {SingleStep(compiled[1],
                                InputRecord(input[itemIndex + 1].item, input[1].customJson),
                                itemIndex, cfg.dataSource, cfg.options)} :
           /\ validItems' = Push(validItems, step.valid)
           /\ invalidItems' = Push(invalidItems, step.invalid)
           /\ calls' = calls \o step.calls
           /\ trace' = trace \o DiagnosticEvents(step.calls, trace, compiled)
    /\ itemIndex' = itemIndex + 1
    /\ UNCHANGED <<cfg, input, pc, ajv, compiled, raised, results, probe>>

\* Variant of SingleItem: the schema is compiled again for every record.
SingleItemRecompiling ==
    /\ pc = "loop"
    /\ cfg.validationMode = "single"
    /\ itemIndex < Len(input)
    /\ \E step \in {SingleStep(createValidator(parseSchema(cfg.jsonSchema).value, ajv).value,
                                input[itemIndex + 1], itemIndex, cfg.dataSource,
                                cfg.options)} :
           /\ validItems' = Push(validItems, step.valid)
           /\ invalidItems' = Push(invalidItems, step.invalid)
           /\ calls' = calls \o step.calls
           /\ trace' = trace \o <<TraceEvent("compile", 1, -1, 0)>>
                             \o DiagnosticEvents(step.calls,
                                                 trace \o <<TraceEvent("compile", 1, -1, 0)>>,
                                                 compiled)
    /\ itemIndex' = itemIndex + 1
    /\ UNCHANGED <<cfg, input, pc, ajv, compiled, raised, results, probe>>

\* executeSingleSchemaMode, one iteration of the loop.
SingleItem ==
    /\ pc = "loop"
    /\ cfg.validationMode = "single"
    /\ itemIndex < Len(input)
    /\ \E step \in {SingleStep(compiled[1], input[itemIndex + 1], itemIndex,
                                cfg.dataSource, cfg.options)} :
           /\ validItems' = Push(validItems, step.valid)
           /\ invalidItems' = Push(invalidItems, step.invalid)
           /\ calls' = calls \o step.calls
           /\ trace' = trace \o DiagnosticEvents(step.calls, trace, compiled)
    /\ itemIndex' = itemIndex + 1
    /\ UNCHANGED <<cfg, input, pc, ajv, compiled, raised, results, probe>>

\* executeMultipleSchemaMode, before the loop.
MultipleSetup ==
    /\ pc = "setup"
    /\ cfg.validationMode # "single"
    /\ LET schemas == cfg.schemas
           each == [i \in 1..Len(schemas) |-> CompileSchemaItem(schemas[i], i - 1, ajv)]
           bad == {i \in 1..Len(schemas) : each[i].threw}
       IN  IF Len(schemas) = 0
           THEN /\ pc' = "failed"
                /\ raised' = "At least one schema is required in multiple schemas mode"
                /\ UNCHANGED compiled
           ELSE IF bad # {}
           THEN /\ pc' = "failed"
                /\ raised' = each[CHOOSE i \in bad : \A j \in bad : i <= j].message
                /\ UNCHANGED compiled
           ELSE /\ pc' = "loop"
                /\ compiled' = [i \in 1..Len(schemas) |-> each[i].value]
                /\ UNCHANGED raised
    /\ trace' = trace \o MapEvents(cfg.schemas, 1, ajv)
    /\ UNCHANGED <<cfg, input, ajv, itemIndex, validItems, invalidItems, calls, results,
                   probe>>

\* executeMultipleSchemaMode, one iteration of the loop over the items.
MultipleItem ==
    /\ pc = "loop"
    /\ cfg.validationMode # "single"
    /\ itemIndex < Len(input)
    /\ \E step \in {MultiStep(compiled, input[itemIndex + 1], itemIndex,
                               cfg.matchMode, cfg.options)} :
           /\ validItems' = Push(validItems, step.valid)
           /\ invalidItems' = Push(invalidItems, step.invalid)
           /\ calls' = calls \o step.calls
           /\ results' = Append(results, step.schemaResults)
           /\ trace' = trace \o DiagnosticEvents(step.calls, trace,
                                                 [j \in 1..Len(compiled) |->
                                                     compiled[j].validator])
    /\ itemIndex' = itemIndex + 1
    /\ UNCHANGED <<cfg, input, pc, ajv, compiled, raised, probe>>

\* The loop ends and execute returns [validItems, invalidItems].
Finish ==
    /\ pc = "loop"
    /\ itemIndex >= Len(input)
    /\ pc' = "done"
    /\ UNCHANGED <<cfg, input, ajv, compiled, itemIndex, validItems, invalidItems,
                   raised, calls, results, trace, probe>>

Next ==
    \/ Execute
    \/ SingleSetup
    \/ SingleItem
    \/ MultipleSetup
    \/ MultipleItem
    \/ Finish

Spec == Init /\ [][Next]_vars

TypeOK ==
    /\ pc \in {"start", "setup", "loop", "done", "failed"}
    /\ itemIndex \in 0..Len(input)
    /\ (raised # "") = (pc = "failed")

(***************************************************************************)
(* Direct calls of the library functions, one call per behaviour: the      *)
(* arguments are drawn from the sets below and the action applies the      *)
(* function.                                                               *)
(***************************************************************************)
ProbeCall(fn, args) == [fn |-> fn, args |-> args, returned |-> FALSE, out |-> Undefined]

\* The run state while a library function is called directly: no run.
IdleConfig ==
    [validationMode |-> "single", jsonSchema |-> SchObject, dataSource |-> "entireItem",
     schemas |-> <<>>, matchMode |-> "all", options |-> DefaultOptions]

\* Records to extract from.
JsonNested == Obj([a |-> Obj([b |-> Num(1), c |-> Null])])
JsonList == Obj([b |-> Arr(<<Str("x"), Obj([a |-> Str("y")])>>)])
JsonFlat == Obj([a |-> Str("x"), c |-> Null])
JsonMatrix == Obj([a |-> Arr(<<Arr(<<Num(1)>>)>>), b |-> Arr(<<>>)])
ProbeJsons == {JsonNested, JsonList, JsonFlat, JsonMatrix, EmptyObj}

\* A segment of the path grammar: `key` or `key[n]`.
Key(name) == [key |-> name, indexed |-> FALSE, n |-> 0]
Idx(name, n) == [key |-> name, indexed |-> TRUE, n |-> n]

\* A path as the caller writes it, with the segments it spells in the grammar.
PathProbe(chars, segments) == [chars |-> chars, segments |-> segments]

ProbePaths ==
    {PathProbe(<<"a">>, <<Key("a")>>),
     PathProbe(<<"c">>, <<Key("c")>>),
     PathProbe(<<"h">>, <<Key("h")>>),
     PathProbe(<<"a", ".", "b">>, <<Key("a"), Key("b")>>),
     PathProbe(<<"a", ".", "c">>, <<Key("a"), Key("c")>>),
     PathProbe(<<"c", ".", "a">>, <<Key("c"), Key("a")>>),
     PathProbe(<<"h", ".", "a">>, <<Key("h"), Key("a")>>),
     PathProbe(<<"a", ".", "b", ".", "c">>, <<Key("a"), Key("b"), Key("c")>>),
     PathProbe(<<"b", "[", "0", "]">>, <<Idx("b", 0)>>),
     PathProbe(<<"b", "[", "1", "]">>, <<Idx("b", 1)>>),
     PathProbe(<<"b", "[", "2", "]">>, <<Idx("b", 2)>>),
     PathProbe(<<"b", "[", "1", "0", "]">>, <<Idx("b", 10)>>),
     PathProbe(<<"b", "[", "0", "1", "]">>, <<Idx("b", 1)>>),
     PathProbe(<<"a", "[", "0", "]">>, <<Idx("a", 0)>>),
     PathProbe(<<"c", "[", "0", "]">>, <<Idx("c", 0)>>),
     PathProbe(<<"b", "[", "1", "]", ".", "a">>, <<Idx("b", 1), Key("a")>>),
     PathProbe(<<"b", "[", "0", "]", ".", "a">>, <<Idx("b", 0), Key("a")>>),
     PathProbe(<<"b", "[", "2", "]", ".", "a">>, <<Idx("b", 2), Key("a")>>),
     PathProbe(<<"b", ".", "0">>, <<Key("b"), Key("0")>>),
     PathProbe(<<"b", ".", "a">>, <<Key("b"), Key("a")>>),
     PathProbe(<<"b", ".", "l", "e", "n", "g", "t", "h">>, <<Key("b"), Key("length")>>),
     PathProbe(<<"a", ".", "l", "e", "n", "g", "t", "h">>, <<Key("a"), Key("length")>>),
     PathProbe(<<"a", "[", "0", "]", ".", "0">>, <<Idx("a", 0), Key("0")>>)}

ExtractProbes ==
    {ProbeCall("extractDataFromPath", [item |-> Item(json, Undefined), path |-> p.chars]) :
        json \in ProbeJsons, p \in ProbePaths}

\* extractDataFromPath(item, path)
CallExtractDataFromPath ==
    /\ probe.fn = "extractDataFromPath"
    /\ ~probe.returned
    /\ probe' = [probe EXCEPT !.returned = TRUE,
                              !.out = extractDataFromPath(probe.args.item, probe.args.path)]
    /\ UNCHANGED <<cfg, input, pc, ajv, compiled, itemIndex, validItems, invalidItems,
                   raised, calls, results, trace>>

\* A schema that can fail twice on one value.
SchReqAC ==
    Obj([type |-> Str("object"),
         required |-> Arr(<<Str("a"), Str("c")>>),
         properties |-> Obj([a |-> Obj([type |-> Str("string")])])])

ProbeSchemas == {SchReqA, SchReqAC, SchString, SchObject, SchRecursive}

ProbeData ==
    {Obj([a |-> Str("x")]), Obj([a |-> Num(1)]), Obj([a |-> Str("x"), c |-> Null]),
     EmptyObj, Str("x"), Num(1), Null, Arr(<<>>)}

ValidateProbes ==
    {ProbeCall("validateData",
               [validator |-> createValidator(
                                  schema, createAjvInstance(validatorOptions(options))).value,
                data |-> data]) :
        schema \in ProbeSchemas,
        options \in {DefaultOptions, [DefaultOptions EXCEPT !.allErrors = "false"]},
        data \in ProbeData}

\* validateData(validator, data)
CallValidateData ==
    /\ probe.fn = "validateData"
    /\ ~probe.returned
    /\ probe' = [probe EXCEPT !.returned = TRUE,
                              !.out = validateData(probe.args.validator, probe.args.data)]
    /\ UNCHANGED <<cfg, input, pc, ajv, compiled, itemIndex, validItems, invalidItems,
                   raised, calls, results, trace>>

ErrorSamples ==
    {ValidationError("/name", "must be string", "type", [type |-> "string"]),
     ValidationError("/age", "must be number", "type", [type |-> "number"]),
     ValidationError("/", "must have required property 'a'", "required",
                     [missingProperty |-> "a"])}

FormatProbes ==
    {ProbeCall("formatValidationErrorMessage", errors) :
        errors \in UNION {[1..n -> ErrorSamples] : n \in 0..MaxErrors}}

\* formatValidationErrorMessage(errors)
CallFormatValidationErrorMessage ==
    /\ probe.fn = "formatValidationErrorMessage"
    /\ ~probe.returned
    /\ probe' = [probe EXCEPT !.returned = TRUE,
                              !.out = formatValidationErrorMessage(probe.args)]
    /\ UNCHANGED <<cfg, input, pc, ajv, compiled, itemIndex, validItems, invalidItems,
                   raised, calls, results, trace>>

\* Error objects as a validator may leave them in validator.errors.
RawSamples ==
    {[instancePath |-> "/a", message |-> "must be string", keyword |-> "type",
      params |-> [type |-> "string"]],
     [instancePath |-> "", message |-> "must have required property 'a'",
      keyword |-> "required", params |-> [missingProperty |-> "a"]],
     [message |-> "must be object", keyword |-> "type", params |-> [type |-> "object"]],
     [instancePath |-> "/a", keyword |-> "format", params |-> [format |-> "email"]],
     [instancePath |-> "/a", message |-> "", keyword |-> "errorMessage",
      params |-> [errors |-> "none"]],
     [instancePath |-> "/c", message |-> "must be null", keyword |-> "type"]}

\* validator.errors: null before any failure, or the errors of the last call.
TransformProbes ==
    {ProbeCall("transformValidationErrors", Null)}
    \cup {ProbeCall("transformValidationErrors", Arr(raw)) :
            raw \in UNION {[1..n -> RawSamples] : n \in 0..MaxErrors}}

\* transformValidationErrors(validator)
CallTransformValidationErrors ==
    /\ probe.fn = "transformValidationErrors"
    /\ ~probe.returned
    /\ probe' = [probe EXCEPT !.returned = TRUE,
                              !.out = transformValidationErrors(probe.args)]
    /\ UNCHANGED <<cfg, input, pc, ajv, compiled, itemIndex, validItems, invalidItems,
                   raised, calls, results, trace>>

LibraryInit ==
    /\ cfg = IdleConfig
    /\ input = <<>>
    /\ pc = "idle"
    /\ ajv = NoAjv
    /\ compiled = <<>>
    /\ itemIndex = 0
    /\ validItems = <<>>
    /\ invalidItems = <<>>
    /\ raised = ""
    /\ calls = <<>>
    /\ results = <<>>
    /\ trace = <<>>
    /\ \/ probe \in ExtractProbes
       \/ probe \in ValidateProbes
       \/ probe \in FormatProbes
       \/ probe \in TransformProbes

LibraryNext ==
    \/ CallExtractDataFromPath
    \/ CallValidateData
    \/ CallFormatValidationErrorMessage
    \/ CallTransformValidationErrors

LibrarySpec == LibraryInit /\ [][LibraryNext]_vars

(***************************************************************************)
(* Properties                                                              *)
(***************************************************************************)
\* The positions of an output that refer to input index i.
OutputsOf(outputs, i) == {j \in 1..Len(outputs) : outputs[j].pairedItem = i}

\* A key of a json object that survives serialisation: present and not undefined.
Carries(json, key) == key \in DOMAIN json.v /\ json.v[key] # Undefined

\* The configurations that are run-fatal: a schema text that does not decode,
\* a schema that does not compile, or no schema at all in multiple mode.
BadSchemaInputs == {Str(TxtTruncated), Str(TxtBadType)}
BadConfig ==
    IF cfg.validationMode = "single" THEN cfg.jsonSchema \in BadSchemaInputs
    ELSE \/ Len(cfg.schemas) = 0
         \/ \E i \in 1..Len(cfg.schemas) : cfg.schemas[i].schema \in BadSchemaInputs

\* C1: when a run completes without a run-fatal error, every input index has
\* exactly one output record, on exactly one of the two outputs, and the two
\* outputs together hold as many records as the input.
C1_OneOutputPerRecord ==
    pc = "done" =>
        /\ Len(validItems) + Len(invalidItems) = Len(input)
        /\ \A i \in 0..(Len(input) - 1) :
              Cardinality(OutputsOf(validItems, i))
                  + Cardinality(OutputsOf(invalidItems, i)) = 1

C1_Witness ==
    /\ pc = "done"
    /\ Len(input) >= 2
    /\ Len(validItems) >= 1
    /\ Len(invalidItems) >= 1

\* C2: in multiple mode a processed record is on the valid output iff its
\* per-schema results satisfy the match mode (all: every result valid; any:
\* at least one), and on the invalid output otherwise.
C2_MatchModeRouting ==
    cfg.validationMode = "multiple" =>
        \A i \in 1..Len(results) :
            LET satisfied ==
                    IF cfg.matchMode = "all"
                    THEN \A j \in 1..Len(results[i]) : results[i][j].isValid
                    ELSE \E j \in 1..Len(results[i]) : results[i][j].isValid
            IN  /\ (OutputsOf(validItems, i - 1) # {}) = satisfied
                /\ (OutputsOf(invalidItems, i - 1) # {}) = ~satisfied

C2_Witness ==
    /\ pc = "done"
    /\ cfg.validationMode = "multiple"
    /\ cfg.matchMode = "any"
    /\ \E i \in 1..Len(results) :
          /\ \E j \in 1..Len(results[i]) : results[i][j].isValid
          /\ \E j \in 1..Len(results[i]) : ~results[i][j].isValid
          /\ OutputsOf(validItems, i - 1) # {}

\* C3: a record on the valid output has the json and the binary of the input
\* record its pairedItem names, in both modes.
C3_ValidUnchanged ==
    \A j \in 1..Len(validItems) :
        /\ validItems[j].pairedItem \in 0..(Len(input) - 1)
        /\ validItems[j].json = input[validItems[j].pairedItem + 1].item.json
        /\ validItems[j].binary = input[validItems[j].pairedItem + 1].item.binary

C3_Witness ==
    /\ pc = "done"
    /\ \E j \in 1..Len(validItems) :
          /\ validItems[j].pairedItem >= 1
          /\ validItems[j].binary = Blob

\* C4: records are processed in input order: when the loop is at index i the
\* records before i, and only they, have their output record, and within each
\* output the pairedItem values are strictly increasing.
C4_InputOrder ==
    /\ Len(validItems) + Len(invalidItems) = itemIndex
    /\ \A j \in 1..Len(validItems) : validItems[j].pairedItem < itemIndex
    /\ \A j \in 1..Len(invalidItems) : invalidItems[j].pairedItem < itemIndex
    /\ \A j \in 1..(Len(validItems) - 1) :
          validItems[j].pairedItem < validItems[j + 1].pairedItem
    /\ \A j \in 1..(Len(invalidItems) - 1) :
          invalidItems[j].pairedItem < invalidItems[j + 1].pairedItem

C4_Witness ==
    /\ pc = "loop"
    /\ itemIndex = 2
    /\ Len(invalidItems) = 2

\* C5: a run-fatal configuration ends the run with one raised failure before
\* any record is processed: no validator invocation, nothing on either output.
C5_FatalBeforeRecords ==
    /\ BadConfig => /\ pc \in {"start", "setup", "failed"}
                    /\ calls = <<>>
                    /\ validItems = <<>>
                    /\ invalidItems = <<>>
                    /\ itemIndex = 0
    /\ pc = "failed" => /\ BadConfig
                        /\ raised # ""
                        /\ calls = <<>>
                        /\ validItems = <<>>
                        /\ invalidItems = <<>>

C5_Witness ==
    /\ pc = "failed"
    /\ Len(input) >= 2
    /\ cfg.validationMode = "multiple"
    /\ Len(cfg.schemas) >= 2

\* A custom value that is missing (empty) or does not decode.
BadCustomValue(record) == record.customJson \in {Str(""), Str(TxtDataCut)}

SingleCustomRun ==
    /\ cfg.validationMode = "single"
    /\ cfg.dataSource = "customJson"
    /\ pc \in {"loop", "done"}

\* C6: in single mode with the custom-value data source, a record whose custom
\* value is missing or does not decode does not abort the run: it is on the
\* invalid output with exactly one error, of keyword parse, the validator was
\* not invoked for it, and the records after it are processed: each gets its
\* one output record, and one validator invocation on its decoded custom value
\* when that decodes.
C6_CustomValueFailureIsLocal ==
    SingleCustomRun =>
        /\ raised = ""
        /\ \A i \in 0..(itemIndex - 1) :
              IF BadCustomValue(input[i + 1])
              THEN /\ OutputsOf(validItems, i) = {}
                   /\ Cardinality(OutputsOf(invalidItems, i)) = 1
                   /\ \A j \in OutputsOf(invalidItems, i) :
                         /\ Carries(invalidItems[j].json, "validationErrors")
                         /\ Len(invalidItems[j].json.v["validationErrors"].v) = 1
                         /\ invalidItems[j].json.v["validationErrors"].v[1].keyword = "parse"
                   /\ \A c \in 1..Len(calls) : calls[c].item # i
              ELSE /\ Cardinality(OutputsOf(validItems, i))
                          + Cardinality(OutputsOf(invalidItems, i)) = 1
                   /\ Cardinality({c \in 1..Len(calls) : calls[c].item = i}) = 1
                   /\ \A c \in 1..Len(calls) :
                         calls[c].item = i =>
                             calls[c].data
                                 = IF IsStr(input[i + 1].customJson)
                                   THEN JSONParse(input[i + 1].customJson.v).value
                                   ELSE input[i + 1].customJson
        /\ pc = "done" => itemIndex = Len(input)

C6_Witness ==
    /\ SingleCustomRun
    /\ pc = "done"
    /\ Len(input) >= 2
    /\ input[1].customJson = Str(TxtDataCut)
    /\ OutputsOf(invalidItems, 0) # {}
    /\ OutputsOf(validItems, 1) # {}

\* The validator invocations made for record i and the schema at position j.
CallsOf(i, j) == {c \in 1..Len(calls) : calls[c].item = i /\ calls[c].schema = j}

\* C7: in multiple mode every (record, schema) pairing invokes the validator at
\* most once: on the whole record when the dataPath is empty, on the extracted
\* value when the dataPath resolves, and not at all when it is not found, the
\* result then being invalid with exactly one error, of keyword path, whose
\* field is the dataPath.
C7_PathScoping ==
    (cfg.validationMode = "multiple" /\ pc \in {"loop", "done"}) =>
        \A i \in 0..(itemIndex - 1) : \A j \in 1..Len(cfg.schemas) :
            LET path == cfg.schemas[j].dataPath
                found == extractDataFromPath(input[i + 1].item, path)
                result == results[i + 1][j]
            IN  /\ Cardinality(CallsOf(i, j)) <= 1
                /\ Len(path) = 0 =>
                      /\ Cardinality(CallsOf(i, j)) = 1
                      /\ \A c \in CallsOf(i, j) : calls[c].data = input[i + 1].item.json
                /\ (Len(path) > 0 /\ found # Undefined) =>
                      /\ Cardinality(CallsOf(i, j)) = 1
                      /\ \A c \in CallsOf(i, j) : calls[c].data = found
                /\ (Len(path) > 0 /\ found = Undefined) =>
                      /\ CallsOf(i, j) = {}
                      /\ ~result.isValid
                      /\ Len(result.errors) = 1
                      /\ result.errors[1].field = Text(path)
                      /\ result.errors[1].keyword = "path"

C7_Witness ==
    /\ cfg.validationMode = "multiple"
    /\ pc = "done"
    /\ \E i \in 0..(itemIndex - 1) : \E j \in 1..Len(cfg.schemas) :
          /\ Len(cfg.schemas[j].dataPath) > 0
          /\ CallsOf(i, j) = {}
          /\ results[i + 1][j].errors[1].keyword = "path"
    /\ \E i \in 0..(itemIndex - 1) : \E j \in 1..Len(cfg.schemas) :
          /\ Len(cfg.schemas[j].dataPath) > 0
          /\ CallsOf(i, j) # {}

\* The validationResults payload of a diagnostic record of multiple mode.
ResultsPayload(output) == output.json.v["validationResults"].v

\* C8, as claimed: every entry of the validationResults payload of an invalid
\* record is a failing result.
C8_OnlyFailingResults ==
    cfg.validationMode = "multiple" =>
        \A j \in 1..Len(invalidItems) :
            Carries(invalidItems[j].json, "validationResults") =>
                \A r \in 1..Len(ResultsPayload(invalidItems[j])) :
                    ~ResultsPayload(invalidItems[j])[r].isValid

\* C8, amended: the validationResults payload of an invalid record, when it is
\* included, lists the results of all configured schemas in configured order,
\* the passing ones too; at least one entry is failing, and under match mode
\* any every entry is.
C8_AllResultsListed ==
    cfg.validationMode = "multiple" =>
        \A j \in 1..Len(invalidItems) :
            /\ Carries(invalidItems[j].json, "validationResults")
                  = NotFalse(cfg.options.includeErrorDetails)
            /\ Carries(invalidItems[j].json, "validationResults") =>
                  LET payload == ResultsPayload(invalidItems[j])
                  IN  /\ Len(payload) = Len(cfg.schemas)
                      /\ payload = results[invalidItems[j].pairedItem + 1]
                      /\ \A r \in 1..Len(payload) :
                            payload[r].schemaName = SchemaLabel(cfg.schemas[r], r - 1)
                      /\ \E r \in 1..Len(payload) : ~payload[r].isValid
                      /\ cfg.matchMode = "any" =>
                            \A r \in 1..Len(payload) : ~payload[r].isValid

C8_Witness ==
    /\ cfg.validationMode = "multiple"
    /\ cfg.matchMode = "all"
    /\ pc = "done"
    /\ \E j \in 1..Len(invalidItems) :
          /\ Carries(invalidItems[j].json, "validationResults")
          /\ \E r \in 1..Len(ResultsPayload(invalidItems[j])) :
                ResultsPayload(invalidItems[j])[r].isValid
          /\ \E r \in 1..Len(ResultsPayload(invalidItems[j])) :
                ~ResultsPayload(invalidItems[j])[r].isValid

\* C9: in single mode every record on the invalid output carries
\* validationMessage, and carries validationErrors only if includeErrorDetails
\* is enabled (absent or true).
C9_ErrorDetailsOnlyIfEnabled ==
    cfg.validationMode = "single" =>
        \A j \in 1..Len(invalidItems) :
            /\ Carries(invalidItems[j].json, "validationMessage")
            /\ Carries(invalidItems[j].json, "validationErrors")
                  => NotFalse(cfg.options.includeErrorDetails)

DiagnosticKeys == {"validationErrors", "validationResults", "validationMessage"}

\* C10: for every record on the invalid output, in both modes: with
\* includeOriginalData enabled the diagnostic record has the fields of the
\* original record and its binary when it has one; with it disabled it has no
\* original field and no binary.
C10_OriginalDataOnlyIfEnabled ==
    \A j \in 1..Len(invalidItems) :
        LET out == invalidItems[j]
            item == input[out.pairedItem + 1].item
        IN  IF IsSet(cfg.options.includeOriginalData)
            THEN /\ \A key \in DOMAIN item.json.v :
                       key \in DOMAIN out.json.v /\ out.json.v[key] = item.json.v[key]
                 /\ Truthy(item.binary) => out.binary = item.binary
            ELSE /\ DOMAIN out.json.v \subseteq DiagnosticKeys
                 /\ out.binary = Undefined

(***************************************************************************)
(* C11..C20                                                                *)
(***************************************************************************)
\* The configured schemas of a multiple-mode run that are run-fatal.
OffendingSchemas == {j \in 1..Len(cfg.schemas) : cfg.schemas[j].schema \in BadSchemaInputs}

\* How a run-fatal error is to name the schema at 1-based position j.
ExpectedSchemaName(j) ==
    IF cfg.schemas[j].schemaName # "" THEN cfg.schemas[j].schemaName
    ELSE CASE j = 1 -> "Schema 1" [] j = 2 -> "Schema 2" [] j = 3 -> "Schema 3"
           [] OTHER -> "Schema ?"

\* The diagnostic text under the failure of the schema at position j: what
\* JSON.parse or the compiler said.
UnderlyingDiagnostic(j) ==
    IF cfg.schemas[j].schema = Str(TxtTruncated)
    THEN "Invalid JSON schema format: Unexpected end of JSON input"
    ELSE "Invalid JSON Schema \"" \o ExpectedSchemaName(j)
         \o "\": schema is invalid: data/type must be equal to one of the allowed values"

\* C11: in multiple mode a run-fatal schema failure raises an error that names
\* the first offending schema of the configuration, by its configured name or,
\* when that is empty, as "Schema n" with n its 1-based position, followed by
\* the underlying diagnostic text.
C11_FatalNamesFirstOffender ==
    (pc = "failed" /\ cfg.validationMode = "multiple" /\ Len(cfg.schemas) > 0)
    => /\ OffendingSchemas # {}
       /\ \E j \in OffendingSchemas :
             /\ \A h \in OffendingSchemas : j <= h
             /\ raised = "Error compiling schema \"" \o ExpectedSchemaName(j) \o "\": "
                          \o UnderlyingDiagnostic(j)

\* A failed run whose second schema, unnamed, is the first offender, ahead of a
\* named offender at position 3.
C11_Witness ==
    /\ pc = "failed"
    /\ cfg.validationMode = "multiple"
    /\ cfg.schemas = <<ItemO, ItemCut, ItemBad>>
    /\ raised = "Error compiling schema \"Schema 2\": Invalid JSON schema format: "
                 \o "Unexpected end of JSON input"

\* The reference walk of a path over a value.  One segment first looks its key
\* up in a mapping and then, for `key[n]`, takes element n of what it found.
\* The outcome is "value", "notfound" (the current value is null or absent, an
\* index meets a value that is no sequence, or the index is out of bounds), or
\* "keyOnNonMapping" (a key lookup on a scalar or on a sequence).
RefOutcome(kind, value) == [kind |-> kind, value |-> value]

RefIndex(found, n) ==
    IF found = Null \/ found = Undefined THEN RefOutcome("notfound", Undefined)
    ELSE IF ~IsArr(found) THEN RefOutcome("notfound", Undefined)
    ELSE IF n >= Len(found.v) THEN RefOutcome("notfound", Undefined)
    ELSE RefOutcome("value", found.v[n + 1])

RefSegment(current, segment) ==
    IF current = Null \/ current = Undefined THEN RefOutcome("notfound", Undefined)
    ELSE IF ~IsObj(current) THEN RefOutcome("keyOnNonMapping", Undefined)
    ELSE LET found == IF segment.key \in DOMAIN current.v THEN current.v[segment.key]
                      ELSE Undefined
         IN  IF segment.indexed THEN RefIndex(found, segment.n)
             ELSE RefOutcome("value", found)

RECURSIVE RefWalk(_, _)
RefWalk(current, segments) ==
    IF Len(segments) = 0
    THEN IF current = Undefined THEN RefOutcome("notfound", Undefined)
         ELSE RefOutcome("value", current)
    ELSE LET step == RefSegment(current, segments[1])
         IN  IF step.kind = "value" THEN RefWalk(step.value, Tail(segments)) ELSE step

\* The reference outcome of the extraction being probed.
ProbedWalk ==
    RefWalk(probe.args.item.json,
            (CHOOSE p \in ProbePaths : p.chars = probe.args.path).segments)

ExtractReturned == probe.fn = "extractDataFromPath" /\ probe.returned

\* C12: extractDataFromPath agrees with the reference walk of the path's `key`
\* and `key[n]` segments: it returns the value at the final segment (null
\* included) when every step resolves, and undefined when a prefix resolves to
\* null or is absent, when an index meets a value that is not a sequence, or
\* when the index is out of bounds.
C12_ExtractAgreesWithReference ==
    ExtractReturned
    => /\ ProbedWalk.kind = "value" => probe.out = ProbedWalk.value
       /\ ProbedWalk.kind = "notfound" => probe.out = Undefined

\* `b[1].a` on {b: ["x", {a: "y"}]} returned "y".
C12_Witness ==
    /\ ExtractReturned
    /\ probe.args.item.json = JsonList
    /\ probe.args.path = <<"b", "[", "1", "]", ".", "a">>
    /\ ProbedWalk = RefOutcome("value", Str("y"))
    /\ probe.out = Str("y")

\* What each probed schema demands of a value, stated directly.
Conforms(schema, data) ==
    CASE schema = SchString -> IsStr(data)
      [] schema = SchObject -> IsObj(data)
      [] schema = SchReqA ->
            IsObj(data) /\ "a" \in DOMAIN data.v /\ IsStr(data.v["a"])
      [] schema = SchReqAC ->
            IsObj(data) /\ {"a", "c"} \subseteq DOMAIN data.v /\ IsStr(data.v["a"])
      [] OTHER -> FALSE

\* validateData returned a ValidationResult.
ValidateReturned == probe.fn = "validateData" /\ probe.returned /\ ~probe.out.threw

\* C13: in every ValidationResult returned by validateData the error list is
\* empty exactly when isValid is true: a value that satisfies the schema gives
\* isValid = true and no errors, a value that violates it gives isValid = false
\* and at least one error.
C13_ErrorsEmptyIffValid ==
    ValidateReturned
    => /\ (Len(probe.out.value.errors) = 0) <=> probe.out.value.isValid
       /\ probe.out.value.isValid
            <=> Conforms(probe.args.validator.schema, probe.args.data)

\* The empty object against a schema requiring a and c, all errors collected:
\* isValid = false with two errors.
C13_Witness ==
    /\ ValidateReturned
    /\ probe.args.validator.schema = SchReqAC
    /\ probe.args.data = EmptyObj
    /\ ~probe.out.value.isValid
    /\ Len(probe.out.value.errors) = 2

RECURSIVE RenderedInOrder(_)
\* The renderings "{field}: {message}" of a list, built from its front, each
\* one after the first preceded by ", ".
RenderedInOrder(errors) ==
    IF Len(errors) = 0 THEN ""
    ELSE LET front == SubSeq(errors, 1, Len(errors) - 1)
             last == errors[Len(errors)]
         IN  (IF Len(front) = 0 THEN "" ELSE RenderedInOrder(front) \o ", ")
             \o last.field \o ": " \o last.message

FormatReturned == probe.fn = "formatValidationErrorMessage" /\ probe.returned

\* C14: formatValidationErrorMessage renders each error as "{field}: {message}"
\* and joins the renderings with ", " in the order of the list; the empty list
\* gives the empty string.
C14_FormatRendersAndJoins ==
    FormatReturned
    => /\ probe.out = RenderedInOrder(probe.args)
       /\ Len(probe.args) = 0 => probe.out = ""
       /\ (Len(probe.args) = 2 /\ probe.args[1].field = "/name"
                                /\ probe.args[2].field = "/age")
            => probe.out = "/name: must be string, /age: must be number"

\* The two-error list of /name and /age was formatted.
C14_Witness ==
    /\ FormatReturned
    /\ Len(probe.args) = 2
    /\ probe.args[1].field = "/name"
    /\ probe.args[2].field = "/age"
    /\ probe.out = "/name: must be string, /age: must be number"

\* C15: the compiler handle of a run is constructed with every validator option
\* of the configuration: coerceTypes and allowUnionTypes equal to the configured
\* values (true when absent), as allErrors and strict are.
C15_OptionsReachCompiler ==
    pc # "start"
    => /\ AjvOption(ajv, "allErrors") = NotFalse(cfg.options.allErrors)
       /\ AjvOption(ajv, "strict") = NotFalse(cfg.options.strictMode)
       /\ AjvOption(ajv, "coerceTypes") = NotFalse(cfg.options.coerceTypes)
       /\ AjvOption(ajv, "allowUnionTypes") = NotFalse(cfg.options.allowUnionTypes)

\* C16: every record on the invalid output carries its summary under the key
\* _validationMessage and its details under _validationErrors (single mode) or
\* _validationResults (multiple mode).
C16_UnderscoreKeys ==
    \A k \in 1..Len(invalidItems) :
        /\ Carries(invalidItems[k].json, "_validationMessage")
        /\ Carries(invalidItems[k].json,
                   IF cfg.validationMode = "single" THEN "_validationErrors"
                   ELSE "_validationResults")

\* The validators a run of this configuration builds, computed from the
\* configuration alone.
ValidatorsOf(config) ==
    LET instance == createAjvInstance(validatorOptions(config.options))
    IN  IF config.validationMode = "single"
        THEN <<createValidator(parseSchema(config.jsonSchema).value, instance).value>>
        ELSE [j \in 1..Len(config.schemas) |->
                CompileSchemaItem(config.schemas[j], j - 1, instance).value]

\* What a run of this configuration emits for a batch made of this record alone.
AloneRun(config, record) ==
    IF config.validationMode = "single"
    THEN SingleStep(ValidatorsOf(config)[1], record, 0, config.dataSource, config.options)
    ELSE MultiStep(ValidatorsOf(config), record, 0, config.matchMode, config.options)

\* An output record without its back-reference to the input position.
Content(output) == [json |-> output.json, binary |-> output.binary]

\* The records of an output for input index i have the content of the emitted ones.
SameContent(outputs, i, emitted) ==
    /\ (OutputsOf(outputs, i) = {}) <=> (Len(emitted) = 0)
    /\ \A k \in OutputsOf(outputs, i) : Content(outputs[k]) = Content(emitted[1])

\* C17: the outcome of a record does not depend on its siblings: in every run,
\* each processed record is on the output, and has the content, that a run of
\* the same configuration gives it when it is the only record of the batch;
\* hence two runs of one configuration that both hold the record treat it alike.
C17_OutcomeIndependentOfSiblings ==
    pc \in {"loop", "done"}
    => \A i \in 0..(itemIndex - 1) :
          /\ SameContent(validItems, i, AloneRun(cfg, input[i + 1]).valid)
          /\ SameContent(invalidItems, i, AloneRun(cfg, input[i + 1]).invalid)

\* A completed single-mode run on custom values: the first record hits a
\* per-record error, its sibling after it passes.
C17_Witness ==
    /\ pc = "done"
    /\ cfg.validationMode = "single"
    /\ cfg.dataSource = "customJson"
    /\ input = <<RecWrong, RecGood>>
    /\ Len(invalidItems) = 1 /\ invalidItems[1].pairedItem = 0
    /\ Len(validItems) = 1 /\ validItems[1].pairedItem = 1

\* The configured schemas whose validator raises when it is invoked.
RaisingSchemas ==
    {j \in 1..Len(cfg.schemas) :
        cfg.schemas[j].schema = Str(TxtRecursive) /\ Len(cfg.schemas[j].dataPath) = 0}

\* C18: in multiple mode a failure raised for one (record, schema) pairing
\* becomes that pairing's result, isValid = false with a single error of keyword
\* parse; the schemas after it are still evaluated, and every processed record
\* has exactly one result per configured schema, in configured order.
C18_RaisedFailureIsPerPairing ==
    (cfg.validationMode = "multiple" /\ pc \in {"loop", "done"})
    => \A i \in 1..itemIndex :
          /\ Len(results[i]) = Len(cfg.schemas)
          /\ \A j \in 1..Len(cfg.schemas) :
                /\ results[i][j].schemaName = ExpectedSchemaName(j)
                /\ j \in RaisingSchemas
                     => /\ ~results[i][j].isValid
                        /\ Len(results[i][j].errors) = 1
                        /\ results[i][j].errors[1].keyword = "parse"
                /\ (j \notin RaisingSchemas /\ Len(cfg.schemas[j].dataPath) = 0)
                     => /\ CallsOf(i - 1, j) # {}
                        /\ results[i][j].isValid
                             <=> Conforms(JSONParse(cfg.schemas[j].schema.v).value,
                                          input[i].item.json)

\* A record whose first schema raised and whose second schema was then
\* evaluated and passed.
C18_Witness ==
    /\ cfg.validationMode = "multiple"
    /\ pc = "done"
    /\ cfg.schemas = <<ItemR, ItemA>>
    /\ Len(input) >= 1 /\ input[1] = RecGood
    /\ results[1][1].errors[1].keyword = "parse"
    /\ results[1][1].errors[1].message = "Maximum call stack size exceeded"
    /\ results[1][2].isValid

\* C19: extractDataFromPath yields undefined whenever a key segment is applied
\* to a value that is not an object-like mapping, a scalar or a sequence: a key
\* segment never reads an element or a property of an array.
C19_KeyOnNonMappingNotFound ==
    (ExtractReturned /\ ProbedWalk.kind = "keyOnNonMapping") => probe.out = Undefined

\* The events of the history with this operation.
EventsOf(op) == {k \in 1..Len(trace) : trace[k].op = op}

\* The number of schemas the run is configured with.
ConfiguredSchemas == IF cfg.validationMode = "single" THEN 1 ELSE Len(cfg.schemas)

\* C20: schemas are parsed and compiled before the first record is validated and
\* never after; once the loop runs there has been one parse and two compiler
\* calls (the check and the validator) per configured schema, however many
\* records there are; and all invocations for one schema run the same validator,
\* the one compiled for that schema before the loop.
C20_CompiledOncePerRun ==
    /\ \A k \in EventsOf("parse") \cup EventsOf("compile") :
          \A h \in EventsOf("validate") : k < h
    /\ pc \in {"loop", "done"}
         => /\ Cardinality(EventsOf("parse")) = ConfiguredSchemas
            /\ Cardinality(EventsOf("compile")) = 2 * ConfiguredSchemas
    /\ \A k \in EventsOf("validate") :
          /\ trace[k].by \in EventsOf("compile")
          /\ trace[trace[k].by].schema = trace[k].schema
          /\ \A h \in EventsOf("validate") :
                trace[h].schema = trace[k].schema => trace[h].by = trace[k].by

\* A completed single-mode run that validated two records with the validator
\* of the third call of the history.
C20_Witness ==
    /\ pc = "done"
    /\ cfg.validationMode = "single"
    /\ Len(input) = 2
    /\ Len(trace) = 5
    /\ trace[4].op = "validate" /\ trace[4].item = 0 /\ trace[4].by = 3
    /\ trace[5].op = "validate" /\ trace[5].item = 1 /\ trace[5].by = 3

(***************************************************************************)
(* C21..C23                                                                *)
(***************************************************************************)
\* The validator the run holds for the schema at position j.
HeldValidator(j) ==
    IF cfg.validationMode = "single" THEN compiled[1] ELSE compiled[j].validator

\* validator.errors as the invocation at position k of the history leaves it.
ErrorsAfter(k) ==
    LET c == CHOOSE c \in CallsOf(trace[k].item, trace[k].schema) : TRUE
    IN  Invoke(HeldValidator(trace[k].schema), calls[c].data).errors

\* validator.errors as the read at position r of the history finds it: what the
\* latest invocation of that validator before r left there.
ErrorsReadAt(r) ==
    LET before == {k \in EventsOf("validate") : k < r /\ trace[k].by = trace[r].by}
    IN  IF before = {} THEN <<>>
        ELSE ErrorsAfter(CHOOSE k \in before : \A h \in before : h <= k)

\* The invocation of the (record, schema) pairing whose diagnostics the read at
\* position r is for.
OwnInvocation(r) ==
    {k \in EventsOf("validate") :
        trace[k].item = trace[r].item /\ trace[k].schema = trace[r].schema}

\* The result of the pairing of the read at position r carries these errors.
Attributed(r, errors) ==
    IF cfg.validationMode = "single"
    THEN \E k \in OutputsOf(invalidItems, trace[r].item) :
            invalidItems[k].json.v["validationMessage"]
                = Str(formatValidationErrorMessage(errors))
    ELSE results[trace[r].item + 1][trace[r].schema].errors = errors

\* C21: the diagnostics of a failing invocation are read before any other
\* invocation: every read directly follows the invocation of its own (record,
\* schema) pairing, finds there what that invocation produced, and the errors
\* of the pairing's result are the ones read.
C21_DiagnosticsReadBeforeNextInvocation ==
    \A r \in EventsOf("read") :
        /\ r - 1 \in OwnInvocation(r)
        /\ trace[r - 1].by = trace[r].by
        /\ ErrorsReadAt(r) = ErrorsAfter(r - 1)
        /\ Attributed(r, transformValidationErrors(Arr(ErrorsReadAt(r))))

\* One validator failed two records in turn for different reasons, and each
\* record's message is the one of its own invocation.
C21_Witness ==
    /\ pc = "done"
    /\ cfg.validationMode = "single"
    /\ cfg.dataSource = "entireItem"
    /\ input = <<RecWrong, RecEmpty>>
    /\ Len(trace) = 7
    /\ trace[5].op = "read" /\ trace[5].item = 0
    /\ trace[7].op = "read" /\ trace[7].item = 1 /\ trace[7].by = trace[5].by
    /\ Len(invalidItems) = 2
    /\ invalidItems[1].json.v["validationMessage"] = Str("/a: must be string")
    /\ invalidItems[2].json.v["validationMessage"]
           = Str("/: must have required property 'a'")

RECURSIVE FailingRendered(_, _)
\* The entries "[{name}] {formatted errors}" of the failing schemas among the
\* first n configured ones of the record at 0-based index i, in configured
\* order, each one after the first preceded by "; ".
FailingRendered(i, n) ==
    IF n = 0 THEN ""
    ELSE LET before == FailingRendered(i, n - 1)
             result == results[i + 1][n]
         IN  IF result.isValid THEN before
             ELSE (IF before = "" THEN "" ELSE before \o "; ")
                  \o "[" \o ExpectedSchemaName(n) \o "] " \o RenderedInOrder(result.errors)

\* C22: in multiple mode the validationMessage of an invalid record lists, joined
\* by "; ", "[{schemaName}] {formatted errors}" for each failing schema in
\* configured order, an unnamed schema appearing as "Schema n"; no passing
\* schema is listed and at least one schema is.
C22_MessageListsFailingSchemas ==
    cfg.validationMode = "multiple"
    => \A k \in 1..Len(invalidItems) :
          /\ "validationMessage" \in DOMAIN invalidItems[k].json.v
          /\ invalidItems[k].json.v["validationMessage"]
                = Str(FailingRendered(invalidItems[k].pairedItem, Len(cfg.schemas)))
          /\ invalidItems[k].json.v["validationMessage"] # Str("")
          /\ \E j \in 1..Len(cfg.schemas) :
                ~results[invalidItems[k].pairedItem + 1][j].isValid

\* Of three schemas the unnamed first and the third fail and the second passes:
\* the message lists "Schema 1" and "Q" only.
C22_Witness ==
    /\ cfg.validationMode = "multiple"
    /\ cfg.schemas = <<ItemP, ItemO, ItemQ>>
    /\ Len(invalidItems) >= 1
    /\ results[invalidItems[1].pairedItem + 1][2].isValid
    /\ invalidItems[1].json.v["validationMessage"]
          = Str("[Schema 1] /: must be string; [Q] b[0]: Path \"b[0]\" not found in item")

TransformReturned == probe.fn = "transformValidationErrors" /\ probe.returned

\* The raw diagnostics of the validator probed: none when validator.errors is null.
Diagnostics == IF probe.args = Null THEN <<>> ELSE probe.args.v

\* The output has one entry per diagnostic, in order, whose field, keyword and
\* params are those of the diagnostic: the pointer, or "/" when it is absent or
\* empty; the keyword; the params, or an empty mapping when they are absent.
MapsPointerKeywordParams ==
    /\ Len(probe.out) = Len(Diagnostics)
    /\ \A i \in 1..Len(Diagnostics) :
          /\ probe.out[i].field =
                (IF "instancePath" \in DOMAIN Diagnostics[i]
                    /\ Diagnostics[i].instancePath # ""
                 THEN Diagnostics[i].instancePath ELSE "/")
          /\ probe.out[i].keyword = Diagnostics[i].keyword
          /\ probe.out[i].params =
                (IF "params" \in DOMAIN Diagnostics[i] THEN Diagnostics[i].params
                 ELSE <<>>)

\* C23, as claimed: transformValidationErrors returns one ValidationError per raw
\* diagnostic, in order, with the field, keyword and params above and with
\* message = the diagnostic's message, "Validation failed" standing in only when
\* the message is absent; no diagnostics give the empty sequence.
C23_MessageFallbackWhenAbsent ==
    TransformReturned
    => /\ MapsPointerKeywordParams
       /\ \A i \in 1..Len(Diagnostics) :
             probe.out[i].message =
                (IF "message" \in DOMAIN Diagnostics[i] THEN Diagnostics[i].message
                 ELSE "Validation failed")

\* C23, amended: as above, but "Validation failed" stands in when the message
\* is absent or empty, as "/" does for the pointer.
C23_MessageFallbackWhenAbsentOrEmpty ==
    TransformReturned
    => /\ MapsPointerKeywordParams
       /\ \A i \in 1..Len(Diagnostics) :
             probe.out[i].message =
                (IF "message" \in DOMAIN Diagnostics[i] /\ Diagnostics[i].message # ""
                 THEN Diagnostics[i].message ELSE "Validation failed")

\* Two diagnostics were transformed in order: one without pointer at the root,
\* one whose message is empty.
C23_Witness ==
    /\ TransformReturned
    /\ Len(Diagnostics) = 2
    /\ "instancePath" \notin DOMAIN Diagnostics[1]
    /\ Diagnostics[2].keyword = "errorMessage"
    /\ probe.out[1] = ValidationError("/", "must be object", "type", [type |-> "object"])
    /\ probe.out[2] = ValidationError("/a", "Validation failed", "errorMessage",
                                      [errors |-> "none"])

====
